---- MODULE Spec2Model ----
(***************************************************************************)
(* A model of prost-reflect's text-format renderer                         *)
(* (prost-reflect/src/dynamic/fmt.rs).                                     *)
(*                                                                         *)
(* Text is a sequence of one-character strings; byte strings are sequences *)
(* of numbers 0..255.  A Writer is a record holding its options, its sink  *)
(* f and its indent_level; every fmt_* operator takes the Writer before    *)
(* the call and yields the Writer after it, whose field res is the         *)
(* fmt::Result the call returned.  The ? operator of the source is the     *)
(* test res = "Err" after each call.                                       *)
(***************************************************************************)
EXTENDS Integers, Sequences, FiniteSets, TLC

VARIABLES pc, entry, self, alternate, f, result, writer

vars == <<pc, entry, self, alternate, f, result, writer>>

----------------------------------------------------------------------------
(* Bounds of the model. *)

\* longest byte string given to the String and Bytes values
MaxLen == 3
\* longest byte string of the pairwise comparison of escaped texts
MaxCmpLen == 2
\* the sink may reject its 1st .. MaxFailAt-th write (0: it rejects none)
MaxFailAt == 6
\* most entries in a generated unknown field set
MaxSetLen == 2
\* most fields in a generated message
MaxFields == 2
\* most elements in a generated list, most entries in a generated map
MaxListLen == 2

----------------------------------------------------------------------------
(* Characters. *)

\* the printable ASCII characters, 0x20 ..= 0x7e (the grave accent, 0x60, is
\* written GRAVE)
Ascii ==
    <<
       " ", "!", "\"", "#", "$", "%", "&", "'", "(", ")", "*", "+", ",", "-", ".", "/",
       "0", "1", "2", "3", "4", "5", "6", "7", "8", "9", ":", ";", "<", "=", ">", "?",
       "@", "A", "B", "C", "D", "E", "F", "G", "H", "I", "J", "K", "L", "M", "N", "O",
       "P", "Q", "R", "S", "T", "U", "V", "W", "X", "Y", "Z", "[", "\\", "]", "^", "_",
       "GRAVE", "a", "b", "c", "d", "e", "f", "g", "h", "i", "j", "k", "l", "m", "n", "o",
       "p", "q", "r", "s", "t", "u", "v", "w", "x", "y", "z", "{", "|", "}", "~"
    >>

\* (ch as char) for a printable byte
Chr(b) == Ascii[b - 31]

\* the text of an ASCII byte string (&str of a String)
Chars(bytes) == [i \in 1..Len(bytes) |-> Chr(bytes[i])]

HexDigits ==
    <<"0", "1", "2", "3", "4", "5", "6", "7", "8", "9", "a", "b", "c", "d", "e", "f">>

RECURSIVE Digits(_)
\* the decimal digits of a natural number
Digits(n) ==
    IF n < 10 THEN <<HexDigits[n + 1]>>
    ELSE Digits(n \div 10) \o <<HexDigits[(n % 10) + 1]>>

\* "{}" of an integer
Decimal(n) == IF n < 0 THEN <<"-">> \o Digits(-n) ELSE Digits(n)

\* "{}" of a bool
BoolText(b) == IF b THEN <<"t", "r", "u", "e">> ELSE <<"f", "a", "l", "s", "e">>

\* "{:03o}" of a byte
Octal3(ch) ==
    <<HexDigits[(ch \div 64) + 1], HexDigits[((ch \div 8) % 8) + 1], HexDigits[(ch % 8) + 1]>>

RECURSIVE HexLe(_)
\* "{:08x}" / "{:016x}" of u32/u64::from_le_bytes(bytes): the last byte is
\* the most significant one, each byte gives two lowercase digits
HexLe(bytes) ==
    IF bytes = <<>> THEN <<>>
    ELSE HexLe(Tail(bytes))
         \o <<HexDigits[(Head(bytes) \div 16) + 1], HexDigits[(Head(bytes) % 16) + 1]>>

----------------------------------------------------------------------------
(* Naming a value. *)

\* the value of a singleton set
Only(S) == CHOOSE x \in S : TRUE

\* let w1 = x; Next(w1)
Bind(x, Next(_)) == Only({Next(w1) : w1 \in {x}})

----------------------------------------------------------------------------
(* The sink and the Writer. *)

\* a sink that rejects its failAt-th write (none when failAt = 0).  writes
\* counts the write calls, late those made after a write was rejected.
NewSink(failAt) ==
    [out |-> <<>>, writes |-> 0, failAt |-> failAt, failed |-> FALSE, late |-> 0]

FormatOptions(pretty, skip_unknown_fields, expand_any) ==
    [pretty |-> pretty, skip_unknown_fields |-> skip_unknown_fields,
     expand_any |-> expand_any]

Default == FormatOptions(FALSE, TRUE, TRUE)

\* the options with the alternate flag left unread
from_formatter_default(alt) == Default

from_formatter(alt) == [Default EXCEPT !.pretty = alt]

\* unknown_calls and empties are history fields: the number of
\* fmt_unknown_field calls, and one record per fmt_value call on a message
\* with nothing to render
Writer_new(options, sink) ==
    [options |-> options, f |-> sink, indent_level |-> 0, res |-> "Ok",
     unknown_calls |-> 0, empties |-> <<>>]

\* one write call on the sink: W::write_str / W::write_char
write_str(w, s) ==
    LET n == w.f.writes + 1
        rejected == (n = w.f.failAt)
    IN [w EXCEPT
          !.f = [out |-> IF rejected THEN w.f.out ELSE w.f.out \o s,
                 writes |-> n,
                 failAt |-> w.f.failAt,
                 failed |-> w.f.failed \/ rejected,
                 late |-> w.f.late + (IF w.f.failed THEN 1 ELSE 0)],
          !.res = IF rejected THEN "Err" ELSE "Ok"]

write_char(w, c) == write_str(w, <<c>>)

\* x?; Next(w1): the call x has left the Writer w1; an Err is returned at
\* once, and what follows runs only after an Ok
Try(x, Next(_)) ==
    CHOOSE after \in {IF w1.res = "Err" THEN w1 ELSE Next(w1) : w1 \in {x}} : TRUE

Ok(w) == [w EXCEPT !.res = "Ok"]

RECURSIVE write_fmt(_, _)
\* write!(self.f, ...): core::fmt::write gives the sink each literal piece
\* and each formatted argument in turn and stops at the first error
write_fmt(w, pieces) ==
    IF pieces = <<>> THEN Ok(w)
    ELSE Try(write_str(w, Head(pieces)), LAMBDA w1 : write_fmt(w1, Tail(pieces)))

fmt_padding(w) ==
    IF w.options.pretty THEN write_char(w, " ") ELSE Ok(w)

RECURSIVE write_spaces(_, _)
\* for _ in 0..n { self.f.write_char(' ')?; }
write_spaces(w, n) ==
    IF n = 0 THEN Ok(w)
    ELSE Try(write_char(w, " "), LAMBDA w1 : write_spaces(w1, n - 1))

\* fmt_newline with the loop over 0..=indent_level
fmt_newline_inclusive(w) ==
    Try(write_char(w, "\n"), LAMBDA w1 : write_spaces(w1, w1.indent_level + 1))

fmt_newline(w) ==
    Try(write_char(w, "\n"), LAMBDA w1 : write_spaces(w1, w1.indent_level))

\* the text fmt_string writes for one byte
EscapeByte(ch) ==
    IF ch = 9 THEN <<"\\", "t">>
    ELSE IF ch = 13 THEN <<"\\", "r">>
    ELSE IF ch = 10 THEN <<"\\", "n">>
    ELSE IF ch = 92 THEN <<"\\", "\\">>
    ELSE IF ch = 39 THEN <<"\\", "'">>
    ELSE IF ch = 34 THEN <<"\\", "\"">>
    ELSE IF ch >= 32 /\ ch <= 126 THEN <<Chr(ch)>>
    ELSE <<"\\">> \o Octal3(ch)

\* the match without the arm for the double quote
fmt_string_byte_quote_unescaped(w, ch) ==
    IF ch \in {9, 13, 10, 92, 39} THEN write_str(w, EscapeByte(ch))
    ELSE IF ch >= 32 /\ ch <= 126 THEN write_char(w, Chr(ch))
    ELSE write_fmt(w, <<<<"\\">>, Octal3(ch)>>)

\* the match of fmt_string on one byte
fmt_string_byte(w, ch) ==
    IF ch \in {9, 13, 10, 92, 39, 34} THEN write_str(w, EscapeByte(ch))
    ELSE IF ch >= 32 /\ ch <= 126 THEN write_char(w, Chr(ch))
    ELSE write_fmt(w, <<<<"\\">>, Octal3(ch)>>)

RECURSIVE fmt_string_bytes(_, _)
\* the loop of fmt_string
fmt_string_bytes(w, bytes) ==
    IF bytes = <<>> THEN Ok(w)
    ELSE Try(fmt_string_byte(w, Head(bytes)), LAMBDA w1 : fmt_string_bytes(w1, Tail(bytes)))

fmt_string(w, bytes) ==
    Try(write_char(w, "\""), LAMBDA w1 :
    Try(fmt_string_bytes(w1, bytes), LAMBDA w2 :
    write_char(w2, "\"")))

----------------------------------------------------------------------------
(* The value tree.  Every Value, MapKey and UnknownField is a record with  *)
(* its variant in tag and its payload in v.  A map is the sequence of its  *)
(* entries in the order its iterator yields them.                          *)

VBool(b) == [tag |-> "Bool", v |-> b]
VI32(n) == [tag |-> "I32", v |-> n]
VI64(n) == [tag |-> "I64", v |-> n]
VU32(n) == [tag |-> "U32", v |-> n]
VU64(n) == [tag |-> "U64", v |-> n]
\* F32 and F64 hold whole numbers only, which "{}" renders without a point
VF32(n) == [tag |-> "F32", v |-> n]
VF64(n) == [tag |-> "F64", v |-> n]
VString(bytes) == [tag |-> "String", v |-> bytes]
VBytes(bytes) == [tag |-> "Bytes", v |-> bytes]
VEnumNumber(n) == [tag |-> "EnumNumber", v |-> n]
VMessage(m) == [tag |-> "Message", v |-> m]
VList(list) == [tag |-> "List", v |-> list]
VMap(entries) == [tag |-> "Map", v |-> entries]

Varint(n) == [tag |-> "Varint", v |-> n]
ThirtyTwoBit(bytes) == [tag |-> "ThirtyTwoBit", v |-> bytes]
SixtyFourBit(bytes) == [tag |-> "SixtyFourBit", v |-> bytes]
LengthDelimited(bytes) == [tag |-> "LengthDelimited", v |-> bytes]
Group(set) == [tag |-> "Group", v |-> set]

\* Option<&Kind>: None, a scalar kind, Kind::Enum with the names of its
\* values, or Kind::Message with the kind of its map-entry value field
NoKind == [tag |-> "None", names |-> <<>>, value_kind |-> <<>>]
ScalarKind == [tag |-> "Scalar", names |-> <<>>, value_kind |-> <<>>]
EnumKind(names) == [tag |-> "Enum", names |-> names, value_kind |-> <<>>]
MessageKind(value_kind) == [tag |-> "Message", names |-> <<>>, value_kind |-> <<value_kind>>]

\* a field or extension descriptor: name, full_name, is_group, kind and, for
\* a group, the name and full name of its message
\* the name and full_name of a group's message descriptor
MessageName(name, full_name) == [name |-> name, full_name |-> full_name]

FieldDesc(name, full_name, is_group, kind, message_name) ==
    [name |-> name, full_name |-> full_name, is_group |-> is_group, kind |-> kind,
     message_name |-> message_name]

\* ValueAndDescriptor
Field(value, desc) == [tag |-> "Field", value |-> value, desc |-> desc]
Extension(value, desc) == [tag |-> "Extension", value |-> value, desc |-> desc]
Unknown(number, values) == [tag |-> "Unknown", number |-> number, values |-> values]

\* a DynamicMessage: the full name of its descriptor and what
\* message.fields.iter(&message.desc) yields
DynamicMessage(desc, fields) == [desc |-> desc, fields |-> fields]

----------------------------------------------------------------------------
(* The protobuf wire format, as UnknownFieldSet::decode and                *)
(* DynamicMessage::decode read it.                                         *)

DecodeOk(value, rest) == [ok |-> TRUE, value |-> value, rest |-> rest]
DecodeErr(rest) == [ok |-> FALSE, value |-> <<>>, rest |-> rest]

RECURSIVE decode_varint(_)
decode_varint(buf) ==
    IF buf = <<>> THEN DecodeErr(buf)
    ELSE IF Head(buf) < 128 THEN DecodeOk(Head(buf), Tail(buf))
    ELSE Bind(decode_varint(Tail(buf)), LAMBDA r :
         IF r.ok THEN DecodeOk((Head(buf) - 128) + 128 * r.value, r.rest) ELSE r)

Take(buf, n) == SubSeq(buf, 1, n)
Drop(buf, n) == SubSeq(buf, n + 1, Len(buf))

RECURSIVE decode_fields(_, _)

\* the value of the field of the given wire type and number at the head of
\* buf, and what follows it
decode_value(wire_type, number, buf) ==
    IF wire_type = 0 THEN
        Bind(decode_varint(buf), LAMBDA n :
        IF n.ok THEN DecodeOk(Varint(n.value), n.rest) ELSE n)
    ELSE IF wire_type = 1 THEN
        IF Len(buf) < 8 THEN DecodeErr(buf)
        ELSE DecodeOk(SixtyFourBit(Take(buf, 8)), Drop(buf, 8))
    ELSE IF wire_type = 2 THEN
        Bind(decode_varint(buf), LAMBDA n :
        IF ~n.ok THEN n
        ELSE IF Len(n.rest) < n.value THEN DecodeErr(n.rest)
        ELSE DecodeOk(LengthDelimited(Take(n.rest, n.value)), Drop(n.rest, n.value)))
    ELSE IF wire_type = 3 THEN
        Bind(decode_fields(buf, number), LAMBDA g :
        IF g.ok THEN DecodeOk(Group(g.value), g.rest) ELSE g)
    ELSE IF wire_type = 5 THEN
        IF Len(buf) < 4 THEN DecodeErr(buf)
        ELSE DecodeOk(ThirtyTwoBit(Take(buf, 4)), Drop(buf, 4))
    ELSE DecodeErr(buf)

\* the fields of buf up to its end (group = 0) or up to the end-group tag of
\* field number group
decode_fields(buf, group) ==
    IF buf = <<>> THEN (IF group = 0 THEN DecodeOk(<<>>, buf) ELSE DecodeErr(buf))
    ELSE
    Bind(decode_varint(buf), LAMBDA key :
    IF ~key.ok THEN key
    ELSE IF key.value \div 8 = 0 THEN DecodeErr(key.rest)
    ELSE IF key.value % 8 = 4 THEN
        (IF group = key.value \div 8 THEN DecodeOk(<<>>, key.rest) ELSE DecodeErr(key.rest))
    ELSE
    Bind(decode_value(key.value % 8, key.value \div 8, key.rest), LAMBDA one :
    IF ~one.ok THEN one
    ELSE
    Bind(decode_fields(one.rest, group), LAMBDA more :
    IF more.ok
    THEN DecodeOk(<<[number |-> key.value \div 8, value |-> one.value]>> \o more.value,
                  more.rest)
    ELSE more)))

\* UnknownFieldSet::decode(buf): Ok(set) or Err; rest is what the decoder
\* has left of the buffer it was given
UnknownFieldSet_decode(buf) == decode_fields(buf, 0)

----------------------------------------------------------------------------
(* The descriptor pool and the Any wrapper.                                *)

\* "type.googleapis.com/"
GoogleApisPrefix ==
    <<116, 121, 112, 101, 46, 103, 111, 111, 103, 108, 101, 97, 112, 105, 115, 46, 99,
      111, 109, 47>>
\* "type.googleprod.com/"
GoogleProdPrefix ==
    <<116, 121, 112, 101, 46, 103, 111, 111, 103, 108, 101, 112, 114, 111, 100, 46, 99,
      111, 109, 47>>

\* "google.protobuf.Any"
AnyFullName ==
    <<103, 111, 111, 103, 108, 101, 46, 112, 114, 111, 116, 111, 98, 117, 102, 46, 65,
      110, 121>>
\* "p.M", the one message type of the pool beside Any
NameM == <<112, 46, 77>>
\* "p.X", a name the pool does not hold
NameX == <<112, 46, 88>>

TypeUrlField == FieldDesc(<<"t", "y", "p", "e", "_", "u", "r", "l">>, <<>>, FALSE, ScalarKind, <<>>)
ValueField == FieldDesc(<<"v", "a", "l", "u", "e">>, <<>>, FALSE, ScalarKind, <<>>)
FieldA == FieldDesc(<<"a">>, <<"p", ".", "M", ".", "a">>, FALSE, ScalarKind, <<>>)
FieldS == FieldDesc(<<"s">>, <<"p", ".", "M", ".", "s">>, FALSE, ScalarKind, <<>>)

\* message p.M { int32 a = 1; string s = 2; }
DescM ==
    [full_name |-> NameM,
     fields |-> <<[number |-> 1, wire |-> "Varint", desc |-> FieldA],
                  [number |-> 2, wire |-> "LengthDelimited", desc |-> FieldS]>>]

\* message.desc.parent_pool()
Pool == {DescM}

None == [some |-> FALSE, value |-> <<>>]
Some(x) == [some |-> TRUE, value |-> x]

get_message_by_name(name) ==
    IF \E d \in Pool : d.full_name = name
    THEN Some(CHOOSE d \in Pool : d.full_name = name)
    ELSE None

\* str::strip_prefix
strip_prefix(str, prefix) ==
    IF Len(str) >= Len(prefix) /\ Take(str, Len(prefix)) = prefix
    THEN Some(Drop(str, Len(prefix)))
    ELSE None

\* the positions of the fields of desc with the given number
FieldsNumbered(desc, number) == {i \in 1..Len(desc.fields) : desc.fields[i].number = number}

\* the field of a decoded message for one wire field
DecodedField(desc, uf) ==
    IF FieldsNumbered(desc, uf.number) = {} THEN Some(Unknown(uf.number, <<uf.value>>))
    ELSE Bind(desc.fields[CHOOSE i \in FieldsNumbered(desc, uf.number) : TRUE], LAMBDA fd :
         IF fd.wire # uf.value.tag THEN None
         ELSE IF fd.wire = "Varint" THEN Some(Field(VI32(uf.value.v), fd.desc))
         ELSE Some(Field(VString(uf.value.v), fd.desc)))

\* DynamicMessage::decode(desc, buf): the fields in the order of the wire;
\* a field of the wrong wire type is a decode error
DynamicMessage_decode(desc, buf) ==
    Bind(UnknownFieldSet_decode(buf), LAMBDA set :
    IF ~set.ok THEN None
    ELSE Bind([i \in 1..Len(set.value) |-> DecodedField(desc, set.value[i])], LAMBDA fields :
         IF \E i \in 1..Len(fields) : ~fields[i].some THEN None
         ELSE Some(DynamicMessage(desc.full_name,
                                  [i \in 1..Len(fields) |-> fields[i].value]))))

\* the positions of the fields of message with the given descriptor
FieldsOf(message, d) ==
    {i \in 1..Len(message.fields) :
        message.fields[i].tag = "Field" /\ message.fields[i].desc = d}

\* the value of the field of message with the given descriptor, and the
\* empty string when it is not present
FieldOrEmpty(message, d) ==
    IF FieldsOf(message, d) = {} THEN <<>>
    ELSE message.fields[CHOOSE i \in FieldsOf(message, d) : TRUE].value.v

\* message.transcode_to::<prost_types::Any>(): the type_url and value fields
\* of the wrapper
transcode_to_Any(message) ==
    Some([type_url |-> FieldOrEmpty(message, TypeUrlField),
          value |-> FieldOrEmpty(message, ValueField)])

\* any.type_url.strip_prefix("type.googleapis.com/")
\*     .or_else(|| any.type_url.strip_prefix("type.googleprod.com/"))
strip_known_prefix(type_url) ==
    IF strip_prefix(type_url, GoogleApisPrefix).some
    THEN strip_prefix(type_url, GoogleApisPrefix)
    ELSE strip_prefix(type_url, GoogleProdPrefix)

as_any(message) ==
    IF message.desc # AnyFullName THEN None
    ELSE
    Bind(transcode_to_Any(message), LAMBDA any :
    IF ~any.some THEN None
    ELSE
    Bind(strip_known_prefix(any.value.type_url), LAMBDA message_name :
    IF ~message_name.some THEN None
    ELSE
    Bind(get_message_by_name(message_name.value), LAMBDA desc :
    IF ~desc.some THEN None
    ELSE
    Bind(DynamicMessage_decode(desc.value, any.value.value), LAMBDA body :
    IF ~body.some THEN None
    ELSE Some([type_url |-> any.value.type_url, body |-> body.value])))))

----------------------------------------------------------------------------
(* Writer: the recursive formatter.  The closure a caller hands to         *)
(* fmt_delimited or fmt_list is a record naming the function it calls and  *)
(* the kind it has captured; Apply calls it.                               *)

Closure(fn, kind) == [fn |-> fn, kind |-> kind]

NotUnknown(fld) == fld.tag # "Unknown"

\* desc.get_value(number) of an enum descriptor
get_value(names, number) ==
    IF \A i \in 1..Len(names) : names[i].number # number THEN None
    ELSE Some(names[CHOOSE i \in 1..Len(names) : names[i].number = number].name)

\* "{}" of a scalar value
ScalarText(value) == IF value.tag = "Bool" THEN BoolText(value.v) ELSE Decimal(value.v)

RECURSIVE fmt_message(_, _)
RECURSIVE fmt_value(_, _, _)
RECURSIVE fmt_message_field(_, _)
RECURSIVE fmt_field_value(_, _, _)
RECURSIVE fmt_unknown_field(_, _)
RECURSIVE fmt_unknown_field_set(_, _)
RECURSIVE fmt_delimited(_, _, _)
RECURSIVE fmt_list(_, _, _)
RECURSIVE Apply(_, _, _)

\* fmt_message with the opening bracket written before the wrapper is
\* resolved
fmt_message_bracket_first(w, message) ==
    IF w.options.expand_any /\ message.desc = AnyFullName THEN
        Try(write_char(w, "["), LAMBDA w0 :
        Bind(as_any(message), LAMBDA any :
        IF any.some THEN
            Try(write_str(w0, Chars(any.value.type_url)), LAMBDA w2 :
            Try(write_str(w2, <<"]">>), LAMBDA w3 :
            Try(fmt_field_value(w3, VMessage(any.value.body), NoKind), LAMBDA w4 :
            Ok(w4))))
        ELSE fmt_delimited(w0, SelectSeq(message.fields, NotUnknown),
                           Closure("fmt_message_field", NoKind))))
    ELSE fmt_delimited(w, SelectSeq(message.fields, NotUnknown),
                       Closure("fmt_message_field", NoKind))

\* fmt_message with the fields left unfiltered
fmt_message_unfiltered(w, message) ==
    Bind(IF w.options.expand_any THEN as_any(message) ELSE None, LAMBDA any :
    IF any.some THEN
        Try(write_char(w, "["), LAMBDA w1 :
        Try(write_str(w1, Chars(any.value.type_url)), LAMBDA w2 :
        Try(write_str(w2, <<"]">>), LAMBDA w3 :
        Try(fmt_field_value(w3, VMessage(any.value.body), NoKind), LAMBDA w4 :
        Ok(w4)))))
    ELSE fmt_delimited(w, message.fields, Closure("fmt_message_field", NoKind)))

fmt_message(w, message) ==
    Bind(IF w.options.expand_any THEN as_any(message) ELSE None, LAMBDA any :
    CASE any.some ->
        Try(write_char(w, "["), LAMBDA w1 :
        Try(write_str(w1, Chars(any.value.type_url)), LAMBDA w2 :
        Try(write_str(w2, <<"]">>), LAMBDA w3 :
        Try(fmt_field_value(w3, VMessage(any.value.body), NoKind), LAMBDA w4 :
        Ok(w4)))))
      [] ~any.some /\ w.options.skip_unknown_fields ->
        fmt_delimited(w, SelectSeq(message.fields, NotUnknown),
                      Closure("fmt_message_field", NoKind))
      [] OTHER ->
        fmt_delimited(w, message.fields,
                      Closure("fmt_message_field", NoKind)))

\* message.fields.iter(&message.desc).all(|f| self.options.skip_unknown_fields
\*     && matches!(f, ValueAndDescriptor::Unknown(..)))
AllSkipped(w, message) ==
    \A i \in 1..Len(message.fields) :
        w.options.skip_unknown_fields /\ message.fields[i].tag = "Unknown"

\* whether message has a field that is not an unknown-field entry
HasKnownField(message) == \E i \in 1..Len(message.fields) : message.fields[i].tag # "Unknown"

\* history: the record of a fmt_value call on a message that has no present
\* field, or only unknown-field entries while skip_unknown_fields is set;
\* any other call is left as it is
Logged(w, message, call) ==
    IF message.fields # <<>> /\ (HasKnownField(message) \/ ~w.options.skip_unknown_fields)
    THEN call
    ELSE Bind(call, LAMBDA after :
         [after EXCEPT !.empties =
             Append(@, [indent_before |-> w.indent_level,
                        indent_after |-> after.indent_level,
                        fields |-> Len(message.fields),
                        res |-> after.res,
                        wrote |-> SubSeq(after.f.out, Len(w.f.out) + 1, Len(after.f.out))])])

indent(w) == [w EXCEPT !.indent_level = @ + 2]
outdent(w) == [w EXCEPT !.indent_level = @ - 2]

fmt_map_key(w, value) ==
    IF value.tag = "String" THEN fmt_string(w, value.v)
    ELSE write_fmt(w, <<ScalarText(value)>>)

\* the closure fmt_value gives fmt_list for a map; its item is (key, value)
fmt_map_entry(w, item, value_kind) ==
    IF w.options.pretty THEN
        Try(write_str(w, <<"{">>), LAMBDA w1 :
        Try(fmt_newline(indent(w1)), LAMBDA w2 :
        Try(write_str(w2, <<"k", "e", "y", ":", " ">>), LAMBDA w3 :
        Try(fmt_map_key(w3, item[1]), LAMBDA w4 :
        Try(fmt_newline(w4), LAMBDA w5 :
        Try(write_str(w5, <<"v", "a", "l", "u", "e">>), LAMBDA w6 :
        Try(fmt_field_value(w6, item[2], value_kind), LAMBDA w7 :
        Try(fmt_newline(outdent(w7)), LAMBDA w8 :
        write_char(w8, "}")))))))))
    ELSE
        Try(write_str(w, <<"{", "k", "e", "y", ":">>), LAMBDA w1 :
        Try(fmt_map_key(w1, item[1]), LAMBDA w2 :
        Try(write_str(w2, <<",", "v", "a", "l", "u", "e">>), LAMBDA w3 :
        Try(fmt_field_value(w3, item[2], value_kind), LAMBDA w4 :
        write_char(w4, "}")))))

\* the Message arm without its first branch
fmt_value_message_braced(w, message) ==
    IF w.options.pretty THEN
        Try(write_char(w, "{"), LAMBDA w1 :
        Try(fmt_newline(indent(w1)), LAMBDA w2 :
        Try(fmt_message(w2, message), LAMBDA w3 :
        Try(fmt_newline(outdent(w3)), LAMBDA w4 :
        write_char(w4, "}")))))
    ELSE
        Try(write_char(w, "{"), LAMBDA w1 :
        Try(fmt_message(w1, message), LAMBDA w2 :
        write_char(w2, "}")))

\* the Message arm of fmt_value
fmt_value_message(w, message) ==
    CASE AllSkipped(w, message) -> write_str(w, <<"{", "}">>)
      [] ~AllSkipped(w, message) /\ w.options.pretty ->
            Try(write_char(w, "{"), LAMBDA w1 :
            Try(fmt_newline(indent(w1)), LAMBDA w2 :
            Try(fmt_message(w2, message), LAMBDA w3 :
            Try(fmt_newline(outdent(w3)), LAMBDA w4 :
            write_char(w4, "}")))))
      [] OTHER ->
            Try(write_char(w, "{"), LAMBDA w1 :
            Try(fmt_message(w1, message), LAMBDA w2 :
            write_char(w2, "}")))

\* the value_kind the Map arm of fmt_value takes from kind
map_value_kind(kind) == IF kind.tag = "Message" THEN kind.value_kind[1] ELSE NoKind

fmt_value(w, value, kind) ==
    CASE value.tag \in {"Bool", "I32", "I64", "U32", "U64", "F32", "F64"} ->
            write_fmt(w, <<ScalarText(value)>>)
      [] value.tag \in {"String", "Bytes"} -> fmt_string(w, value.v)
      [] value.tag = "EnumNumber" ->
            Bind(IF kind.tag = "Enum" THEN get_value(kind.names, value.v) ELSE None,
                 LAMBDA name :
                 IF name.some THEN write_str(w, name.value)
                 ELSE write_fmt(w, <<Decimal(value.v)>>))
      [] value.tag = "Message" -> Logged(w, value.v, fmt_value_message(w, value.v))
      [] value.tag = "List" ->
            fmt_list(w, value.v, Closure("fmt_value", kind))
      [] value.tag = "Map" ->
            fmt_list(w, value.v,
                     Closure("fmt_map_entry", map_value_kind(kind)))

fmt_message_field(w, field) ==
    CASE field.tag = "Field" ->
            Try(IF field.desc.is_group
                THEN write_fmt(w, <<field.desc.message_name.name>>)
                ELSE write_fmt(w, <<field.desc.name>>), LAMBDA w1 :
            fmt_field_value(w1, field.value, field.desc.kind))
      [] field.tag = "Extension" ->
            Try(IF field.desc.is_group
                THEN write_fmt(w, <<<<"[">>, field.desc.message_name.full_name, <<"]">>>>)
                ELSE write_fmt(w, <<<<"[">>, field.desc.full_name, <<"]">>>>), LAMBDA w1 :
            fmt_field_value(w1, field.value, field.desc.kind))
      [] field.tag = "Unknown" ->
            fmt_delimited(w,
                          [i \in 1..Len(field.values) |->
                              [number |-> field.number, value |-> field.values[i]]],
                          Closure("fmt_unknown_field", NoKind))

\* fmt_field_value with the colon before a message too when pretty
fmt_field_value_colon(w, value, kind) ==
    Try(IF value.tag # "Message" \/ w.options.pretty THEN write_char(w, ":") ELSE Ok(w),
        LAMBDA w1 :
    Try(fmt_padding(w1), LAMBDA w2 :
    fmt_value(w2, value, kind)))

fmt_field_value(w, value, kind) ==
    Try(IF value.tag # "Message" THEN write_char(w, ":") ELSE Ok(w), LAMBDA w1 :
    Try(fmt_padding(w1), LAMBDA w2 :
    fmt_value(w2, value, kind)))

\* the arm of fmt_unknown_field for a scalar: ':', the padding, the text
fmt_unknown_scalar(w, pieces) ==
    Try(write_char(w, ":"), LAMBDA w1 :
    Try(fmt_padding(w1), LAMBDA w2 :
    write_fmt(w2, pieces)))

\* the arm with the decoder given bytes itself: what a failed decode has
\* left of it is what the arm then writes
fmt_unknown_length_delimited_consumed(w, bytes) ==
    Bind(IF bytes # <<>> THEN UnknownFieldSet_decode(bytes) ELSE DecodeErr(bytes), LAMBDA set :
    IF bytes # <<>> /\ set.ok THEN
        Try(fmt_padding(w), LAMBDA w1 : fmt_unknown_field_set(w1, set.value))
    ELSE
        Try(write_char(w, ":"), LAMBDA w1 :
        Try(fmt_padding(w1), LAMBDA w2 :
        fmt_string(w2, set.rest))))

\* the arm of fmt_unknown_field for UnknownField::LengthDelimited: the
\* decoder is given a clone of bytes, and bytes stays whole
fmt_unknown_length_delimited(w, bytes) ==
    Bind(IF bytes # <<>> THEN UnknownFieldSet_decode(bytes) ELSE DecodeErr(bytes), LAMBDA set :
    IF bytes # <<>> /\ set.ok THEN
        Try(fmt_padding(w), LAMBDA w1 : fmt_unknown_field_set(w1, set.value))
    ELSE
        Try(write_char(w, ":"), LAMBDA w1 :
        Try(fmt_padding(w1), LAMBDA w2 :
        fmt_string(w2, bytes))))

fmt_unknown_field(w, item) ==
    Try(write_fmt([w EXCEPT !.unknown_calls = @ + 1], <<Decimal(item.number)>>), LAMBDA w1 :
    CASE item.value.tag = "Varint" ->
            fmt_unknown_scalar(w1, <<Decimal(item.value.v)>>)
      [] item.value.tag \in {"ThirtyTwoBit", "SixtyFourBit"} ->
            fmt_unknown_scalar(w1, <<<<"0", "x">>, HexLe(item.value.v)>>)
      [] item.value.tag = "LengthDelimited" ->
            fmt_unknown_length_delimited(w1, item.value.v)
      [] item.value.tag = "Group" ->
            Try(fmt_padding(w1), LAMBDA w2 : fmt_unknown_field_set(w2, item.value.v)))

fmt_unknown_field_set(w, set) ==
    CASE set = <<>> -> write_str(w, <<"{", "}">>)
      [] set # <<>> /\ w.options.pretty ->
            Try(write_char(w, "{"), LAMBDA w1 :
            Try(fmt_newline(indent(w1)), LAMBDA w2 :
            Try(fmt_delimited(w2, set, Closure("fmt_unknown_field", NoKind)),
                LAMBDA w3 :
            Try(fmt_newline(outdent(w3)), LAMBDA w4 :
            write_char(w4, "}")))))
      [] OTHER ->
            Try(write_char(w, "{"), LAMBDA w1 :
            Try(fmt_delimited(w1, set, Closure("fmt_unknown_field", NoKind)),
                LAMBDA w2 :
            write_char(w2, "}")))

\* the for loop of fmt_delimited over the items from the i-th on
RECURSIVE fmt_delimited_rest(_, _, _, _)

\* the loop with the result of the delimiter's write dropped
fmt_delimited_rest_unpropagated(w, iter, i, closure) ==
    IF i > Len(iter) THEN Ok(w)
    ELSE Bind(IF w.options.pretty THEN fmt_newline(w) ELSE write_char(w, ","), LAMBDA w1 :
         Try(Apply(closure, w1, iter[i]), LAMBDA w2 :
         fmt_delimited_rest(w2, iter, i + 1, closure)))

fmt_delimited_rest(w, iter, i, closure) ==
    IF i > Len(iter) THEN Ok(w)
    ELSE Try(IF w.options.pretty THEN fmt_newline(w) ELSE write_char(w, ","), LAMBDA w1 :
         Try(Apply(closure, w1, iter[i]), LAMBDA w2 :
         fmt_delimited_rest(w2, iter, i + 1, closure)))

\* fmt_delimited with a delimiter before the first item too
fmt_delimited_leading(w, iter, closure) == fmt_delimited_rest(w, iter, 1, closure)

fmt_delimited(w, iter, closure) ==
    IF iter = <<>> THEN Ok(w)
    ELSE Try(Apply(closure, w, iter[1]), LAMBDA w1 : fmt_delimited_rest(w1, iter, 2, closure))

\* the for loop of fmt_list over the items from the i-th on
RECURSIVE fmt_list_rest(_, _, _, _)
fmt_list_rest(w, iter, i, closure) ==
    IF i > Len(iter) THEN Ok(w)
    ELSE Try(write_char(w, ","), LAMBDA w1 :
         Try(fmt_padding(w1), LAMBDA w2 :
         Try(Apply(closure, w2, iter[i]), LAMBDA w3 :
         fmt_list_rest(w3, iter, i + 1, closure))))

fmt_list(w, iter, closure) ==
    Try(write_char(w, "["), LAMBDA w1 :
    Try(IF iter = <<>> THEN Ok(w1) ELSE Apply(closure, w1, iter[1]), LAMBDA w2 :
    Try(IF iter = <<>> THEN Ok(w2) ELSE fmt_list_rest(w2, iter, 2, closure), LAMBDA w3 :
    write_char(w3, "]"))))

\* f(self, item) for the closure f given to fmt_delimited or fmt_list
Apply(closure, w, item) ==
    CASE closure.fn = "fmt_message_field" -> fmt_message_field(w, item)
      [] closure.fn = "fmt_unknown_field" -> fmt_unknown_field(w, item)
      [] closure.fn = "fmt_value" -> fmt_value(w, item, closure.kind)
      [] closure.fn = "fmt_map_entry" -> fmt_map_entry(w, item, closure.kind)

----------------------------------------------------------------------------
(* The entry points.  A Formatter is its alternate flag and its sink; each *)
(* Display operator yields the sink and the result after the call, and the *)
(* Writer the call made.                                                   *)

Formatter(alt, sink) == [alternate |-> alt, f |-> sink, res |-> "Ok"]

\* made: whether the call has made a Writer
NoWriter ==
    [made |-> FALSE, options |-> Default, indent_level |-> 0, unknown_calls |-> 0,
     empties |-> <<>>]

Returned(call) ==
    Bind(call, LAMBDA w :
    [f |-> w.f, res |-> w.res,
     writer |-> [made |-> TRUE, options |-> w.options, indent_level |-> w.indent_level,
                 unknown_calls |-> w.unknown_calls, empties |-> w.empties]])

Display_Value(fm, value) ==
    Returned(fmt_value(Writer_new(from_formatter(fm.alternate), fm.f), value, NoKind))

Display_DynamicMessage(fm, message) ==
    Returned(fmt_message(Writer_new(from_formatter(fm.alternate), fm.f), message))

Display_UnknownFieldSet(fm, set) ==
    Returned(fmt_delimited(
        Writer_new([from_formatter(fm.alternate) EXCEPT !.skip_unknown_fields = FALSE], fm.f),
        set, Closure("fmt_unknown_field", NoKind)))

\* the Formatter that write!(f, "...{}...", value) hands to value's Display:
\* the sink of f with the flags of the placeholder, and "{}" sets none
Placeholder(fm) == Formatter(FALSE, fm.f)

NotFound == [tag |-> "NotFound"]
\* field: is_map, is_list and the Debug text of its kind and of the kinds of
\* its map entry's key and value fields
InvalidType(field, value) == [tag |-> "InvalidType", field |-> field, value |-> value]

\* the Writer of a call that has made none, with the sink and the result
Plain(fm) == [f |-> fm.f, res |-> fm.res, writer |-> NoWriter]

\* the write! of the expected type
fmt_expected_type(fm, field) ==
    IF field.is_map THEN
        write_fmt(fm, << <<"m", "a", "p", "<">>, field.key_kind, <<",", " ">>,
                         field.value_kind, <<">">> >>)
    ELSE IF field.is_list THEN
        write_fmt(fm, << <<"r", "e", "p", "e", "a", "t", "e", "d", " ">>, field.kind >>)
    ELSE write_fmt(fm, <<field.kind>>)

Display_SetFieldError(fm, err) ==
    IF err.tag = "NotFound" THEN
        Plain(write_fmt(fm, << <<"f", "i", "e", "l", "d", " ", "n", "o", "t", " ",
                                 "f", "o", "u", "n", "d">> >>))
    ELSE
        Bind(write_fmt(fm, << <<"e", "x", "p", "e", "c", "t", "e", "d", " ", "a", " ",
                                "v", "a", "l", "u", "e", " ", "o", "f", " ",
                                "t", "y", "p", "e", " ", "'">> >>), LAMBDA w1 :
        IF w1.res = "Err" THEN Plain(w1) ELSE
        Bind(fmt_expected_type(w1, err.field), LAMBDA w2 :
        IF w2.res = "Err" THEN Plain(w2) ELSE
        Bind(write_str(w2, <<"'", ",", " ", "b", "u", "t", " ", "f", "o", "u", "n", "d",
                             " ", "'">>), LAMBDA w3 :
        IF w3.res = "Err" THEN Plain(w3) ELSE
        Bind(Display_Value(Placeholder(w3), err.value), LAMBDA d :
        IF d.res = "Err" THEN d ELSE
        Bind(write_str(d, <<"'">>), LAMBDA w4 :
        [f |-> w4.f, res |-> w4.res, writer |-> d.writer])))))

----------------------------------------------------------------------------
(* The inputs of the calls.                                                *)

SeqsUpTo(S, n) == UNION {[1..k -> S] : k \in 0..n}

\* NUL, line feed, the two quotes, the backslash, 'n' and 0xff
ByteAlphabet == {0, 10, 34, 39, 92, 110, 255}

\* tab; carriage return; "\t", "\000" and "\\" spelled out; a space; braces;
\* DEL; 0x80; "hi"; "x y"
ByteSamples ==
    {<<9>>, <<13>>, <<92, 116>>, <<92, 48, 48, 48>>, <<92, 92>>, <<32>>, <<123, 32, 125>>,
     <<127>>, <<128>>, <<104, 105>>, <<120, 32, 121>>, <<48, 48, 48>>, <<0, 48>>, <<9, 13, 10, 92, 39, 34>>}

ByteStrings == SeqsUpTo(ByteAlphabet, MaxLen) \cup ByteSamples

IsAscii(bytes) == \A i \in 1..Len(bytes) : bytes[i] < 128

StringValues ==
    {VBytes(b) : b \in ByteStrings} \cup {VString(b) : b \in {x \in ByteStrings : IsAscii(x)}}

\* enum E { ONE = 1; }
KindE == EnumKind(<<[number |-> 1, name |-> <<"O", "N", "E">>]>>)

FieldE == FieldDesc(<<"e">>, <<"p", ".", "M", ".", "e">>, FALSE, KindE, <<>>)
FieldN == FieldDesc(<<"n">>, <<"p", ".", "M", ".", "n">>, FALSE, MessageKind(NoKind), <<>>)
FieldG ==
    FieldDesc(<<"g">>, <<"p", ".", "M", ".", "g">>, TRUE, MessageKind(NoKind),
              MessageName(<<"G">>, <<"p", ".", "M", ".", "G">>))
FieldL == FieldDesc(<<"l">>, <<"p", ".", "M", ".", "l">>, FALSE, ScalarKind, <<>>)
\* map<int32, E> m
FieldMap == FieldDesc(<<"m">>, <<"p", ".", "M", ".", "m">>, FALSE, MessageKind(KindE), <<>>)
ExtX == FieldDesc(<<"x">>, <<"p", ".", "x">>, FALSE, ScalarKind, <<>>)
ExtG ==
    FieldDesc(<<"y">>, <<"p", ".", "y">>, TRUE, MessageKind(NoKind),
              MessageName(<<"Y">>, <<"p", ".", "Y">>))

\* a google.protobuf.Any holding type_url and value
AnyMessage(type_url, value) ==
    DynamicMessage(AnyFullName,
                   <<Field(VString(type_url), TypeUrlField), Field(VBytes(value), ValueField)>>)

TypeUrls ==
    {GoogleApisPrefix \o NameM, GoogleProdPrefix \o NameM, GoogleApisPrefix \o NameX,
     <<120, 47>> \o NameM, NameM, <<>>}

\* payloads: empty; a = 3; a = 3, s = "h"; an unknown field 3; a truncated
\* field; s sent as a varint
Payloads == {<<>>, <<8, 3>>, <<8, 3, 18, 1, 104>>, <<24, 1>>, <<255>>, <<16, 1>>}

AnyMessages ==
    {AnyMessage(u, v) : u \in TypeUrls, v \in Payloads}
    \cup {DynamicMessage(AnyFullName, <<>>),
          DynamicMessage(AnyFullName, <<Unknown(3, <<Varint(3)>>)>>),
          DynamicMessage(AnyFullName, <<Field(VString(GoogleApisPrefix \o NameM), TypeUrlField)>>)}

EmptyM == DynamicMessage(NameM, <<>>)
UnknownOnlyM == DynamicMessage(NameM, <<Unknown(3, <<Varint(3)>>), Unknown(4, <<Varint(4)>>)>>)
OneM == DynamicMessage(NameM, <<Field(VI32(1), FieldA)>>)
TwoM ==
    DynamicMessage(NameM, <<Field(VI32(-7), FieldA), Unknown(3, <<Varint(3)>>),
                            Field(VString(<<120, 32, 121>>), FieldS)>>)
DeepM ==
    DynamicMessage(NameM, <<Field(VMessage(OneM), FieldN), Field(VMessage(EmptyM), FieldN),
                            Field(VMessage(UnknownOnlyM), FieldN)>>)

Nested ==
    {EmptyM, UnknownOnlyM, OneM, TwoM, DeepM,
     AnyMessage(GoogleApisPrefix \o NameM, <<8, 3>>),
     AnyMessage(GoogleApisPrefix \o NameX, <<8, 3>>)}

MapEntries ==
    {<<VI32(1), VEnumNumber(1)>>, <<VI32(2), VEnumNumber(5)>>, <<VString(<<107>>), VMessage(OneM)>>,
     <<VBool(TRUE), VMessage(EmptyM)>>}

Maps ==
    {VMap(m) : m \in {x \in SeqsUpTo(MapEntries, MaxListLen) :
                         \A i, j \in 1..Len(x) : i # j => x[i][1] # x[j][1]}}

ListElements == {VI32(1), VString(<<32, 97>>), VMessage(OneM), VMessage(UnknownOnlyM)}

Lists == {VList(l) : l \in SeqsUpTo(ListElements, MaxListLen)}

Scalars ==
    {VBool(TRUE), VBool(FALSE), VI32(-7), VI64(120), VU32(0), VU64(10), VF32(2), VF64(-1),
     VEnumNumber(1)}

FieldEntries ==
    {Field(VI32(1), FieldA), Field(VString(<<120, 32, 34>>), FieldS),
     Field(VEnumNumber(1), FieldE), Field(VEnumNumber(5), FieldE),
     Extension(VBool(TRUE), ExtX), Extension(VMessage(OneM), ExtG),
     Unknown(3, <<Varint(3)>>), Unknown(4, <<LengthDelimited(<<8, 3>>), Group(<<>>)>>),
     Field(VList(<<VI32(1), VMessage(TwoM)>>), FieldL),
     Field(VMap(<<<<VI32(1), VEnumNumber(1)>>, <<VI32(2), VMessage(OneM)>>>>), FieldMap),
     Field(VMessage(OneM), FieldG)}
    \cup {Field(VMessage(n), FieldN) : n \in Nested}

\* unknown entries before, between and after the fields
MixedM ==
    DynamicMessage(NameM, <<Unknown(3, <<Varint(3)>>), Field(VI32(1), FieldA),
                            Unknown(4, <<Varint(4), Varint(5)>>), Field(VMessage(TwoM), FieldN),
                            Unknown(3, <<Varint(3)>>)>>)

Messages ==
    {DynamicMessage(NameM, flds) : flds \in SeqsUpTo(FieldEntries, MaxFields)}
    \cup AnyMessages \cup {TwoM, MixedM}

TreeValues ==
    Scalars \cup Lists \cup Maps \cup {VMessage(m) : m \in Nested \cup AnyMessages}
    \cup {VList(<<VMap(<<<<VI32(1), VMessage(DeepM)>>>>), VMessage(TwoM)>>)}

\* one fragment of each wire type; the length-delimited ones are: empty, one
\* that fails to decode, a truncated one, two that decode, one holding a
\* nested one
UnknownEntries ==
    {[number |-> 1, value |-> Varint(150)],
     [number |-> 2, value |-> ThirtyTwoBit(<<205, 204, 12, 64>>)],
     [number |-> 3, value |-> SixtyFourBit(<<10, 0, 0, 0, 0, 0, 0, 128>>)],
     [number |-> 4, value |-> LengthDelimited(<<>>)],
     [number |-> 14, value |-> LengthDelimited(<<53>>)],
     [number |-> 5, value |-> LengthDelimited(<<8, 3, 10, 9>>)],
     [number |-> 6, value |-> LengthDelimited(<<8, 3>>)],
     [number |-> 7, value |-> LengthDelimited(<<10, 1, 49, 16, 1>>)],
     [number |-> 8, value |-> LengthDelimited(<<10, 2, 8, 3>>)],
     [number |-> 9, value |-> Group(<<>>)],
     [number |-> 10, value |-> Group(<<[number |-> 1, value |-> LengthDelimited(<<98, 97, 114>>)],
                                       [number |-> 2, value |-> Varint(10)]>>)]}

UnknownFieldSets == SeqsUpTo(UnknownEntries, MaxSetLen)

FieldShape(is_map, is_list, kind, key_kind, value_kind) ==
    [is_map |-> is_map, is_list |-> is_list, kind |-> kind, key_kind |-> key_kind,
     value_kind |-> value_kind]

FieldShapes ==
    {FieldShape(FALSE, FALSE, <<"i", "n", "t", "3", "2">>, <<>>, <<>>),
     FieldShape(FALSE, TRUE, <<"b", "o", "o", "l">>, <<>>, <<>>),
     FieldShape(TRUE, TRUE, <<"m", ".", "E">>,
                <<"i", "n", "t", "3", "2">>, <<"s", "t", "r", "i", "n", "g">>)}

SetFieldErrors ==
    {NotFound}
    \cup {InvalidType(fld, v) :
            fld \in FieldShapes,
            v \in {VI32(1), VString(<<104, 105>>), VMessage(EmptyM), VMessage(TwoM),
                   VList(<<VI32(1), VI32(2)>>), VMap(<<<<VI32(1), VU32(2)>>>>)}}

FailPoints == 0..MaxFailAt

----------------------------------------------------------------------------
(* The state machine: one call of one entry point.                         *)

Init ==
    /\ pc = "idle"
    /\ entry = "none"
    /\ self = <<>>
    /\ alternate = FALSE
    /\ f = NewSink(0)
    /\ result = "none"
    /\ writer = NoWriter

Return(name, value, alt, d) ==
    /\ pc' = "done"
    /\ entry' = name
    /\ self' = value
    /\ alternate' = alt
    /\ f' = d.f
    /\ result' = d.res
    /\ writer' = d.writer

\* format!("{}", value) / format!("{:#}", value) of a string or bytes value,
\* into a sink that rejects nothing
DisplayString ==
    /\ pc = "idle"
    /\ \E value \in StringValues, alt \in BOOLEAN :
          \E d \in {Display_Value(Formatter(alt, NewSink(0)), value)} : Return("Value", value, alt, d)

\* <Value as Display>::fmt
DisplayValue ==
    /\ pc = "idle"
    /\ \E value \in TreeValues, alt \in BOOLEAN, failAt \in FailPoints :
          \E d \in {Display_Value(Formatter(alt, NewSink(failAt)), value)} : Return("Value", value, alt, d)

\* <DynamicMessage as Display>::fmt
DisplayDynamicMessage ==
    /\ pc = "idle"
    /\ \E message \in Messages, alt \in BOOLEAN, failAt \in FailPoints :
          \E d \in {Display_DynamicMessage(Formatter(alt, NewSink(failAt)), message)} :
             Return("DynamicMessage", message, alt, d)

\* <UnknownFieldSet as Display>::fmt
DisplayUnknownFieldSet ==
    /\ pc = "idle"
    /\ \E set \in UnknownFieldSets, alt \in BOOLEAN, failAt \in FailPoints :
          \E d \in {Display_UnknownFieldSet(Formatter(alt, NewSink(failAt)), set)} :
             Return("UnknownFieldSet", set, alt, d)

\* <SetFieldError as Display>::fmt
DisplaySetFieldError ==
    /\ pc = "idle"
    /\ \E err \in SetFieldErrors, alt \in BOOLEAN, failAt \in FailPoints :
          \E d \in {Display_SetFieldError(Formatter(alt, NewSink(failAt)), err)} :
             Return("SetFieldError", err, alt, d)

Next ==
    \/ DisplayString
    \/ DisplayValue
    \/ DisplayDynamicMessage
    \/ DisplayUnknownFieldSet
    \/ DisplaySetFieldError

Spec == Init /\ [][Next]_vars

----------------------------------------------------------------------------
(* The input of a call with every unknown-field entry taken out, at every  *)
(* depth.                                                                  *)

RECURSIVE WithoutUnknown(_)
WithoutUnknownMessage(message) ==
    DynamicMessage(message.desc,
        [i \in 1..Len(SelectSeq(message.fields, NotUnknown)) |->
            [SelectSeq(message.fields, NotUnknown)[i] EXCEPT !.value = WithoutUnknown(@)]])

WithoutUnknown(value) ==
    CASE value.tag = "Message" -> VMessage(WithoutUnknownMessage(value.v))
      [] value.tag = "List" -> VList([i \in 1..Len(value.v) |-> WithoutUnknown(value.v[i])])
      [] value.tag = "Map" ->
            VMap([i \in 1..Len(value.v) |-> <<value.v[i][1], WithoutUnknown(value.v[i][2])>>])
      [] OTHER -> value

\* the call of the entry point again, on another input
Again(name, alt, failAt, input) ==
    CASE name = "Value" -> Display_Value(Formatter(alt, NewSink(failAt)), input)
      [] name = "DynamicMessage" ->
            Display_DynamicMessage(Formatter(alt, NewSink(failAt)), input)
      [] name = "UnknownFieldSet" ->
            Display_UnknownFieldSet(Formatter(alt, NewSink(failAt)), input)
      [] name = "SetFieldError" ->
            Display_SetFieldError(Formatter(alt, NewSink(failAt)), input)

\* self with every unknown-field entry taken out
SelfWithoutUnknown ==
    IF entry = "Value" THEN WithoutUnknown(self) ELSE WithoutUnknownMessage(self)

----------------------------------------------------------------------------
(* C2.  A fmt_value call on a message that has no present field, or only   *)
(* unknown-field entries while skip_unknown_fields is set, writes exactly  *)
(* the two characters {} (nothing when the sink rejects the write) and     *)
(* leaves the indent counter as it was, in pretty and in compact mode and  *)
(* at every depth.                                                         *)
EmptyMessageRendersBraces ==
    pc = "done" =>
        \A i \in 1..Len(writer.empties) :
            /\ writer.empties[i].indent_after = writer.empties[i].indent_before
            /\ writer.empties[i].res = "Ok" => writer.empties[i].wrote = <<"{", "}">>
            /\ writer.empties[i].res = "Err" => writer.empties[i].wrote = <<>>

\* a pretty call that has rendered a nested message holding only unknown
\* entries
EmptyMessageNested ==
    /\ pc = "done"
    /\ alternate
    /\ result = "Ok"
    /\ \E i \in 1..Len(writer.empties) :
          /\ writer.empties[i].indent_before > 0
          /\ writer.empties[i].fields > 0
          /\ writer.empties[i].wrote = <<"{", "}">>

----------------------------------------------------------------------------
(* C6.  Once a write to the sink has returned an error, the call returns   *)
(* the error and makes no further write to the sink, whatever the depth of *)
(* the failure.                                                            *)
SinkFailurePropagates ==
    pc = "done" /\ f.failed => result = "Err" /\ f.late = 0

\* a call whose sink has rejected a write inside a braced block, after some
\* text was written
SinkFailedInBlock ==
    /\ pc = "done"
    /\ f.failed
    /\ writer.made
    /\ writer.indent_level > 0
    /\ f.out # <<>>

----------------------------------------------------------------------------
(* C7, as amended.  Display for Value, DynamicMessage and UnknownFieldSet  *)
(* render in pretty mode exactly when the caller's alternate flag is set;  *)
(* SetFieldError renders the offered value in compact mode whatever the    *)
(* caller's flag; skip_unknown_fields is true except under Display for     *)
(* UnknownFieldSet, expand_any is true, and the options at the end of the  *)
(* call are those it started with.                                         *)
EntryPointOptions ==
    pc = "done" /\ writer.made =>
        writer.options =
            FormatOptions(IF entry = "SetFieldError" THEN FALSE ELSE alternate,
                          entry # "UnknownFieldSet", TRUE)

\* SetFieldError has rendered a message for a caller that set the alternate
\* flag
SetFieldErrorAlternate ==
    /\ pc = "done"
    /\ entry = "SetFieldError"
    /\ alternate
    /\ writer.made
    /\ result = "Ok"
    /\ self.value.tag = "Message"

\* C7 as stated: every entry point, SetFieldError's rendering of the offered
\* value too, is in pretty mode exactly when the caller's alternate flag is
\* set
EveryEntryPointFollowsAlternate ==
    pc = "done" /\ writer.made =>
        writer.options = FormatOptions(alternate, entry # "UnknownFieldSet", TRUE)

----------------------------------------------------------------------------
(* C10.  In a call started through Display for Value or for DynamicMessage *)
(* skip_unknown_fields is set, fmt_unknown_field is never called, and the  *)
(* output is the output for the input without its unknown-field entries.   *)
UnknownFieldsNeverRendered ==
    pc = "done" /\ entry \in {"Value", "DynamicMessage"} =>
        /\ writer.options.skip_unknown_fields
        /\ writer.unknown_calls = 0
        /\ f.out = Again(entry, alternate, f.failAt, SelfWithoutUnknown).f.out
        /\ result = Again(entry, alternate, f.failAt, SelfWithoutUnknown).res

\* a message with an unknown-field entry among its fields and in a nested
\* message has been rendered
UnknownFieldsPresent ==
    /\ pc = "done"
    /\ entry = "DynamicMessage"
    /\ result = "Ok"
    /\ f.out # <<>>
    /\ \E i \in 1..Len(self.fields) : self.fields[i].tag = "Unknown"
    /\ \E i \in 1..Len(self.fields) :
          /\ self.fields[i].tag = "Field"
          /\ self.fields[i].value.tag = "Message"
          /\ \E j \in 1..Len(self.fields[i].value.v.fields) :
                self.fields[i].value.v.fields[j].tag = "Unknown"

----------------------------------------------------------------------------
(* Reading escaped text back: the inverse of the escape table.             *)

\* the byte of a printable ASCII character
Code(c) == CHOOSE b \in 32..126 : Chr(b) = c

OctalDigits == {"0", "1", "2", "3", "4", "5", "6", "7"}

\* the escape of one byte, as the table states it
Escaped(b) ==
    CASE b = 9 -> <<"\\", "t">>
      [] b = 13 -> <<"\\", "r">>
      [] b = 10 -> <<"\\", "n">>
      [] b = 92 -> <<"\\", "\\">>
      [] b = 39 -> <<"\\", "'">>
      [] b = 34 -> <<"\\", "\"">>
      [] b \in 32..126 \ {92, 39, 34} -> <<Chr(b)>>
      [] OTHER -> <<"\\", Chr(48 + (b \div 64)), Chr(48 + ((b \div 8) % 8)), Chr(48 + (b % 8))>>

RECURSIVE EscapedAll(_)
EscapedAll(bytes) ==
    IF bytes = <<>> THEN <<>> ELSE Escaped(Head(bytes)) \o EscapedAll(Tail(bytes))

\* the byte a two-character escape stands for, -1 when there is none
SimpleEscape(c) ==
    CASE c = "t" -> 9
      [] c = "r" -> 13
      [] c = "n" -> 10
      [] c = "\\" -> 92
      [] c = "'" -> 39
      [] c = "\"" -> 34
      [] OTHER -> -1

Malformed == <<-1>>

RECURSIVE Unescape(_)
\* the bytes that escaped text stands for; text no parser accepts (a bare
\* double quote, a cut escape) gives Malformed
Unescape(text) ==
    CASE text = <<>> -> <<>>
      [] text # <<>> /\ Head(text) = "\"" -> Malformed
      [] text # <<>> /\ Head(text) = "\\" /\ Len(text) >= 4
            /\ \A i \in 2..4 : text[i] \in OctalDigits ->
            <<64 * (Code(text[2]) - 48) + 8 * (Code(text[3]) - 48) + (Code(text[4]) - 48)>>
            \o Unescape(SubSeq(text, 5, Len(text)))
      [] text # <<>> /\ Head(text) = "\\" /\ Len(text) >= 2 /\ text[2] \notin OctalDigits ->
            <<SimpleEscape(text[2])>> \o Unescape(SubSeq(text, 3, Len(text)))
      [] text # <<>> /\ Head(text) = "\\" -> Malformed
      [] OTHER -> <<Code(Head(text))>> \o Unescape(Tail(text))

\* the length of the run of backslashes that ends right before position i
BackslashRun(text, i) ==
    Cardinality({k \in 1..(i - 1) : \A j \in (i - k)..(i - 1) : text[j] = "\\"})

\* the positions of the double quotes of text that no backslash escapes
BareQuotes(text) ==
    {i \in 1..Len(text) : text[i] = "\"" /\ BackslashRun(text, i) % 2 = 0}

\* text without its first and its last character
Inner(text) == SubSeq(text, 2, Len(text) - 1)

----------------------------------------------------------------------------
(* C3.  For a string or bytes value b the output is a double quote, the    *)
(* escape of each byte of b in order as the table gives it, and a double   *)
(* quote; reading the text between the quotes back by the inverse table    *)
(* gives b; no other byte string of up to MaxCmpLen bytes has the same     *)
(* output; and no double quote between the outer quotes is unescaped.      *)
StringEscapingRoundTrips ==
    pc = "done" /\ entry = "Value" /\ self.tag \in {"String", "Bytes"} /\ result = "Ok" =>
        /\ f.out = <<"\"">> \o EscapedAll(self.v) \o <<"\"">>
        /\ Unescape(Inner(f.out)) = self.v
        /\ BareQuotes(Inner(f.out)) = {}
        /\ Len(self.v) <= MaxCmpLen =>
              \A other \in SeqsUpTo(ByteAlphabet, MaxCmpLen) :
                  other # self.v =>
                      Again("Value", alternate, 0, VBytes(other)).f.out # f.out

\* a bytes value holding a double quote, a backslash and the byte 0xff has
\* been rendered
StringWithEveryEscape ==
    /\ pc = "done"
    /\ entry = "Value"
    /\ self.tag = "Bytes"
    /\ result = "Ok"
    /\ \E i, j, k \in 1..Len(self.v) : self.v[i] = 34 /\ self.v[j] = 92 /\ self.v[k] = 255

----------------------------------------------------------------------------
(* Reading the output: what lies outside the quoted strings.               *)

\* the positions of text outside its quoted strings
Outside(text) ==
    LET quotes == BareQuotes(text)
    IN {i \in 1..Len(text) :
           i \notin quotes /\ Cardinality({q \in quotes : q < i}) % 2 = 0}

\* the number of the characters in opening, less those in closing, at the
\* positions of outs before i
Depth(text, outs, i, opening, closing) ==
    Cardinality({j \in outs : j < i /\ text[j] \in opening})
    - Cardinality({j \in outs : j < i /\ text[j] \in closing})

\* the number of spaces that follow position i
SpacesAfter(text, i) ==
    Cardinality({k \in 1..(Len(text) - i) : \A j \in (i + 1)..(i + k) : text[j] = " "})

\* the positions of the newlines outside the strings
Newlines(text, outs) == {i \in outs : text[i] = "\n"}

\* whether the newline at i has the indent of its place: two spaces per
\* block open at i, one block less before a closing brace; when the text
\* stops in the indent, no more than that
Indented(text, outs, i, stopped) ==
    LET spaces == SpacesAfter(text, i)
        blocks == Depth(text, outs, i, {"{"}, {"}"})
    IN IF i + spaces + 1 > Len(text) THEN stopped /\ spaces <= 2 * blocks
       ELSE IF text[i + spaces + 1] = "}" THEN spaces = 2 * (blocks - 1)
       ELSE spaces = 2 * blocks

----------------------------------------------------------------------------
(* C8.  In a pretty call every newline written is followed by two spaces   *)
(* per braced block open at that point, the newline before a closing brace *)
(* by those of the enclosing level; a call that returns Ok leaves the      *)
(* indent counter at 0 and every block closed.                             *)
IndentationInvariant ==
    pc = "done" /\ writer.made /\ writer.options.pretty =>
        LET outs == Outside(f.out)
        IN /\ \A i \in Newlines(f.out, outs) : Indented(f.out, outs, i, result = "Err")
           /\ result = "Ok" =>
                 /\ writer.indent_level = 0
                 /\ Depth(f.out, outs, Len(f.out) + 1, {"{"}, {"}"}) = 0

\* a pretty call that returned Ok after a block inside a block
IndentedTwoLevels ==
    /\ pc = "done"
    /\ writer.made
    /\ writer.options.pretty
    /\ result = "Ok"
    /\ \E i \in Newlines(f.out, Outside(f.out)) : SpacesAfter(f.out, i) >= 4

----------------------------------------------------------------------------
(* C9.  fmt_delimited on n items (the fields of a message that are not     *)
(* unknown entries, the entries of an unknown field set) writes n-1        *)
(* delimiters, a comma in compact mode and a newline with its indent in    *)
(* pretty mode, each between two consecutive items as they render alone:   *)
(* none leads, none trails, none stands for a skipped unknown entry.       *)

\* the items the top-level fmt_delimited of the call is given
TopLevelItems ==
    IF entry = "DynamicMessage" THEN SelectSeq(self.fields, NotUnknown) ELSE self

\* the output of the call on the k-th item alone
ItemAlone(k) ==
    IF entry = "DynamicMessage"
    THEN Again(entry, alternate, 0, DynamicMessage(self.desc, <<TopLevelItems[k]>>)).f.out
    ELSE Again(entry, alternate, 0, <<TopLevelItems[k]>>).f.out

RECURSIVE ItemsJoined(_, _)
\* the first n items as they render alone, with delimiter between them
ItemsJoined(n, delimiter) ==
    IF n = 0 THEN <<>>
    ELSE IF n = 1 THEN ItemAlone(1)
    ELSE ItemsJoined(n - 1, delimiter) \o delimiter \o ItemAlone(n)

\* the positions of the delimiter outside the strings, the braces and the
\* brackets of text
TopLevelDelimiters(text, delimiter) ==
    LET outs == Outside(text)
    IN {i \in outs :
           text[i] = delimiter /\ Depth(text, outs, i, {"{", "["}, {"}", "]"}) = 0}

SiblingDelimiters ==
    pc = "done" /\ result = "Ok" /\ entry \in {"DynamicMessage", "UnknownFieldSet"}
       /\ (entry = "DynamicMessage" => self.desc # AnyFullName) =>
        LET delimiter == IF alternate THEN "\n" ELSE ","
            delims == TopLevelDelimiters(f.out, delimiter)
            n == Len(TopLevelItems)
        IN /\ Cardinality(delims) = IF n = 0 THEN 0 ELSE n - 1
           /\ 1 \notin delims
           /\ Len(f.out) \notin delims
           /\ \A i \in delims : i + 1 \notin delims
           /\ f.out = ItemsJoined(n, <<delimiter>>)

\* a message with an unknown entry before, between and after two rendered
\* fields
SkippedAmongSiblings ==
    /\ pc = "done"
    /\ result = "Ok"
    /\ entry = "DynamicMessage"
    /\ self.desc # AnyFullName
    /\ Len(self.fields) = 5
    /\ \A i \in {1, 3, 5} : self.fields[i].tag = "Unknown"
    /\ \A i \in {2, 4} : self.fields[i].tag # "Unknown"

----------------------------------------------------------------------------
(* C1.  Pretty against compact.                                            *)

\* what the character at i of a pretty output becomes: a character of a
\* string stays; a space goes; the newline after an opening brace and the
\* newline before a closing brace go, with their indent; any other newline
\* becomes a comma
Compacted(text, outs, i) ==
    CASE i \notin outs -> <<text[i]>>
      [] i \in outs /\ text[i] = " " -> <<>>
      [] i \in outs /\ text[i] = "\n" ->
            IF i > 1 /\ text[i - 1] = "{" THEN <<>>
            ELSE IF i + SpacesAfter(text, i) + 1 <= Len(text)
                    /\ text[i + SpacesAfter(text, i) + 1] = "}" THEN <<>>
            ELSE <<",">>
      [] OTHER -> <<text[i]>>

\* what the character at i becomes when every space and newline outside
\* the strings is removed
Stripped(text, outs, i) ==
    IF i \in outs /\ text[i] \in {" ", "\n"} THEN <<>> ELSE <<text[i]>>

RECURSIVE CompactedFrom(_, _, _, _)
\* the characters from lo to hi, each as Compacted gives it
CompactedFrom(text, outs, lo, hi) ==
    IF lo > hi THEN <<>>
    ELSE IF lo = hi THEN Compacted(text, outs, lo)
    ELSE CompactedFrom(text, outs, lo, (lo + hi) \div 2)
         \o CompactedFrom(text, outs, ((lo + hi) \div 2) + 1, hi)

RECURSIVE StrippedFrom(_, _, _, _)
\* the characters from lo to hi, each as Stripped gives it
StrippedFrom(text, outs, lo, hi) ==
    IF lo > hi THEN <<>>
    ELSE IF lo = hi THEN Stripped(text, outs, lo)
    ELSE StrippedFrom(text, outs, lo, (lo + hi) \div 2)
         \o StrippedFrom(text, outs, ((lo + hi) \div 2) + 1, hi)

\* a pretty call of one of the three entry points for value trees that
\* returned Ok
PrettyDone ==
    /\ pc = "done"
    /\ entry \in {"Value", "DynamicMessage", "UnknownFieldSet"}
    /\ alternate
    /\ result = "Ok"

(* C1, as amended.  Take the pretty output of a value tree; remove the     *)
(* spaces pretty mode inserted and the newline-and-indent after each       *)
(* opening brace and before each closing brace, and put a comma for every  *)
(* other newline-and-indent (the delimiter between siblings, and between   *)
(* the key and the value of a map entry): the result is the compact output *)
(* of the same value, character for character.                             *)
PrettyCompactEquivalence ==
    PrettyDone =>
        LET outs == Outside(f.out)
        IN CompactedFrom(f.out, outs, 1, Len(f.out)) = Again(entry, FALSE, 0, self).f.out

\* a pretty call on a message with two rendered fields, a nested block
\* among them
PrettyWithSiblings ==
    /\ PrettyDone
    /\ entry = "DynamicMessage"
    /\ Len(SelectSeq(self.fields, NotUnknown)) >= 2
    /\ \E i \in Outside(f.out) : f.out[i] = "{"

\* C1 as stated: the pretty output without the spaces and newlines pretty
\* mode inserted is the compact output, up to spaces after delimiters
StrippedPrettyIsCompact ==
    PrettyDone =>
        LET outs == Outside(f.out)
            compact == Again(entry, FALSE, 0, self).f.out
        IN StrippedFrom(f.out, outs, 1, Len(f.out))
           = StrippedFrom(compact, Outside(compact), 1, Len(compact))

----------------------------------------------------------------------------
(* C4.  The Any wrapper.                                                   *)

HasPrefix(str, prefix) == Len(str) >= Len(prefix) /\ SubSeq(str, 1, Len(prefix)) = prefix

\* the type_url and the payload of the wrapper self
WrapperUrl == FieldOrEmpty(self, TypeUrlField)
WrapperPayload == FieldOrEmpty(self, ValueField)

\* the descriptors of the pool that the type_url of the wrapper names behind
\* one of the two known prefixes
WrapperTypes ==
    {d \in Pool :
        \/ WrapperUrl = GoogleApisPrefix \o d.full_name
        \/ WrapperUrl = GoogleProdPrefix \o d.full_name}

\* every step succeeds: the prefix is known, the pool holds the name, the
\* payload decodes
WrapperResolves ==
    \E d \in WrapperTypes : DynamicMessage_decode(d, WrapperPayload).some

\* the message the payload decodes to
WrapperBody ==
    DynamicMessage_decode(CHOOSE d \in WrapperTypes : TRUE, WrapperPayload).value

\* the field-value rendering of a message, in the mode of the call
FieldValueAlone(message) ==
    Returned(fmt_field_value(Writer_new(from_formatter(alternate), NewSink(0)),
                             VMessage(message), NoKind)).f.out

\* the rendering of the fields of self as those of an ordinary message, into
\* a sink like the one of the call
OrdinaryFields ==
    Returned(fmt_message(
        Writer_new([from_formatter(alternate) EXCEPT !.expand_any = FALSE],
                   NewSink(f.failAt)),
        self))

(* C4.  For a google.protobuf.Any wrapper under expand_any: when the URL   *)
(* has a known prefix, the pool holds the name and the payload decodes,    *)
(* the output is [url] and the field-value rendering of the decoded        *)
(* message; in every other case output and result are those of the fields  *)
(* of the wrapper rendered as an ordinary message, with no bracket         *)
(* written, also when the sink fails.                                      *)
AnyExpansionAllOrNothing ==
    pc = "done" /\ entry = "DynamicMessage" /\ self.desc = AnyFullName =>
        IF WrapperResolves
        THEN result = "Ok" =>
                f.out = <<"[">> \o Chars(WrapperUrl) \o <<"]">> \o FieldValueAlone(WrapperBody)
        ELSE /\ f.out = OrdinaryFields.f.out
             /\ result = OrdinaryFields.res
             /\ f.out # <<>> => f.out[1] # "["

\* a wrapper whose URL names a type of the pool and whose payload does not
\* decode has been rendered
AnyPayloadUndecodable ==
    /\ pc = "done"
    /\ entry = "DynamicMessage"
    /\ self.desc = AnyFullName
    /\ WrapperTypes # {}
    /\ ~WrapperResolves
    /\ result = "Ok"
    /\ f.out # <<>>

----------------------------------------------------------------------------
(* C5.  An unknown length-delimited fragment.                              *)

\* the padding of the mode of the call
Padding == IF alternate THEN <<" ">> ELSE <<>>

\* the nested-set syntax of an unknown field set, in the mode of the call
SetSyntax(set) ==
    Returned(fmt_unknown_field_set(
        Writer_new([from_formatter(alternate) EXCEPT !.skip_unknown_fields = FALSE],
                   NewSink(0)),
        set)).f.out

\* whether the fragment is not empty and decodes as an unknown field set
DecodesAsSet(bytes) == bytes # <<>> /\ UnknownFieldSet_decode(bytes).ok

\* what C5 has fmt_unknown_field write for a length-delimited entry
FragmentText(item) ==
    IF DecodesAsSet(item.value.v)
    THEN Decimal(item.number) \o Padding \o SetSyntax(UnknownFieldSet_decode(item.value.v).value)
    ELSE Decimal(item.number) \o <<":">> \o Padding
         \o <<"\"">> \o EscapedAll(item.value.v) \o <<"\"">>

(* C5.  The output for a set whose first entry is a length-delimited       *)
(* fragment starts with the number and the nested-set syntax, with no      *)
(* colon, when the fragment is not empty and decodes as an unknown field   *)
(* set, and otherwise with the number, a colon and the escaped string of   *)
(* the whole fragment; a delimiter or the end of the output follows.       *)
UnknownLengthDelimited ==
    pc = "done" /\ entry = "UnknownFieldSet" /\ result = "Ok" /\ self # <<>>
       /\ self[1].value.tag = "LengthDelimited" =>
        LET text == FragmentText(self[1])
        IN /\ Len(f.out) >= Len(text)
           /\ SubSeq(f.out, 1, Len(text)) = text
           /\ IF Len(self) = 1 THEN f.out = text
              ELSE f.out[Len(text) + 1] = (IF alternate THEN "\n" ELSE ",")

\* a fragment whose decode fails after it has read a field has been
\* rendered
FailedDecodeAfterAField ==
    /\ pc = "done"
    /\ entry = "UnknownFieldSet"
    /\ result = "Ok"
    /\ self # <<>>
    /\ self[1].value.tag = "LengthDelimited"
    /\ self[1].value.v # <<>>
    /\ ~UnknownFieldSet_decode(self[1].value.v).ok
    /\ UnknownFieldSet_decode(self[1].value.v).rest # self[1].value.v

====
